---------------------------- MODULE Spec2Model ----------------------------
(***************************************************************************)
(* A model of mongo_magic (artheadsweden/cc_analyzer): the Document        *)
(* mapping base, the auto-increment counter, the connection manager with   *)
(* its lazy-init guard, and the three class-creation paths.                *)
(*                                                                         *)
(* The MongoDB driver (pymongo / bson) is an external collaborator: a      *)
(* collection is a function from stored identities to documents, and each  *)
(* driver call is one atomic step on it.                                   *)
(*                                                                         *)
(* Python's None is Null; a __dict__ is a function from attribute names to *)
(* values.                                                                 *)
(***************************************************************************)
EXTENDS Integers, Sequences, FiniteSets, TLC

\* ------------------------------------------------------------------ bounds
MaxInst == 1        \* Document instances the caller holds
MaxOid == 2         \* identities the driver generates
MaxVal == 1         \* distinct encodable field values
MaxItems == 2       \* length of the list given to insert_many
MaxSeq == 2         \* cap on a counter document's sequence_value

NumCtx == 2         \* execution contexts
MaxCalls == 3       \* calls of _get_auto_id, over all contexts
MaxIncrement == 2   \* the increments passed to _get_auto_id
MaxInitial == 1     \* a counter document's sequence_value before the first call
MaxRetries == 3     \* the retries a caller passes to init_db: 0..MaxRetries
MaxStarts == 3      \* calls of init_db, over all contexts
MaxArgs == 2        \* positional arguments given to a model class
MaxAssign == 1      \* attribute assignments on instances of mapped classes

\* ------------------------------------------------------------------ values
Null == 0           \* None
Unencodable == -1   \* a value bson cannot encode (bson.errors.InvalidDocument)

Oids == 1..MaxOid
Insts == 1..MaxInst
FieldValues == (1..MaxVal) \cup {Unencodable}
AutoField == "n"
SequenceName == "order_seq"
SequenceNames == {"order_seq", "user_seq"}
Ctxs == 1..NumCtx
Increments == 1..MaxIncrement

EmptyDict == [k \in {} |-> Null]

\* dict.update(e)
Update(d, e) == [k \in (DOMAIN d) \cup (DOMAIN e) |-> IF k \in DOMAIN e THEN e[k] ELSE d[k]]

\* del d[key]
Without(d, key) == [k \in (DOMAIN d) \ {key} |-> d[k]]

\* d[key] = v
With(d, key, v) == [k \in (DOMAIN d) \cup {key} |-> IF k = key THEN v ELSE d[k]]

\* the dicts a caller passes: an optional field a, an optional _id
Dicts ==
  LET doms == SUBSET {"a", "_id"}
  IN UNION { { d \in [dom -> FieldValues \cup {Null} \cup Oids] :
                 /\ ("a" \in dom => d["a"] \in FieldValues)
                 /\ ("_id" \in dom => d["_id"] \in {Null} \cup Oids) } : dom \in doms }

\* a first positional argument: a dict, or anything else (absent, None)
PosArgs == {[isDict |-> FALSE, d |-> EmptyDict]} \cup {[isDict |-> TRUE, d |-> d] : d \in Dicts}

VARIABLES
  inst,        \* inst[i]: [alive, d]: the caller's i-th Document and its __dict__
  coll,        \* the bound collection: stored identity -> stored document
  nextOid,     \* the next identity the driver generates
  counters,    \* the counters collection: [exists, docs: sequence name -> sequence_value]
  persisted,   \* instances that were inserted by save or loaded from a stored document
  insertedId,  \* insertedId[i]: the identity save's insert gave instance i (Null: none)
  last         \* the last operation: [op, inst, res, items, k]; items and k: insert_many's
               \* list and the position of its first failing save (0: none)

docVars == <<inst, coll, nextOid, persisted, insertedId, last>>

VARIABLES
  apc,         \* apc[c]: where context c is in _get_auto_id: "idle" or "update"
  areq,        \* areq[c]: [seq, inc]: the arguments of context c's call in progress
  rets,        \* the calls of _get_auto_id that returned, in the order of their updates
  initDocs,    \* the counter documents before the first call
  aerr         \* aerr[c]: the error context c's last call raised ("none": it did not)

autoVars == <<apc, areq, rets, initDocs, aerr>>

VARIABLES
  db,          \* DataBase._db: Null, or the context whose init_db stored the handle
  env,         \* MONGO_DB_CONNECTION_STRING and MONGO_DB_NAME are both set
  cpc,         \* cpc[c]: where context c is: "idle", in init_db's "loop", or at its "store"
  call,        \* call[c]: init_db's frame: [retries, i, attempts, client, via]
  done,        \* done[c]: context c's last finished call: [res, retries, attempts, via]
  starts,      \* calls of init_db so far
  guardRuns,   \* guardRuns[c]: times the guard of context c called init_db
  guardStores, \* times an init_db called by the guard stored the handle
  active       \* the contexts that have made a call

connVars == <<db, env, cpc, call, done, starts, guardRuns, guardStores, active>>

VARIABLES
  classes,     \* classes[k]: the mapped class made by path k: [made, collection, wrapper]:
               \* its collection attribute, and the collection attribute of the function
               \* that mongo_check_and_connect put in its place
  obj,         \* [alive, kind, d]: the instance the caller holds, the path that made its
               \* class and its __dict__
  mlast,       \* the last operation on a mapped class: [op, kind, res, name]
  assigns      \* attribute assignments made so far

modelVars == <<classes, obj, mlast, assigns>>

vars == <<docVars, counters, autoVars, connVars, modelVars>>

\* what the operations on documents and on the connection leave alone
notDoc == <<autoVars, connVars, modelVars>>
notConn == <<docVars, counters, autoVars, modelVars>>

\* ------------------------------------------------------------ Document
\* Document.__init__(*args, **kwargs)
Document__init__(pos, kwargs) ==
  LET base == IF "_id" \notin DOMAIN kwargs THEN [k \in {"_id"} |-> Null] ELSE EmptyDict
      d == IF pos.isDict THEN pos.d ELSE kwargs
  IN Update(base, d)

\* bson refuses the document
InvalidDocument(d) == \E k \in DOMAIN d : d[k] = Unencodable

\* Document._get_auto_id: find_one_and_update(upsert=True, $inc, return_document=True)
FindOneAndUpdate(docs, seq, increment) ==
  With(docs, seq, (IF seq \in DOMAIN docs THEN docs[seq] ELSE 0) + increment)

\* return_document=False: the document as it was before the update
ReturnDocumentBefore(before, after, seq) == IF seq \in DOMAIN before THEN before[seq] ELSE Null

\* return_document=True: the document as it is after the update
ReturnDocument(before, after, seq) == after[seq]

DefaultIncrement == 2

\* the try block with replace_one(..., upsert=True): a replace that matches
\* nothing inserts
DocSaveUpsert(d, c, nid, assignFirst) ==
  IF "_id" \notin DOMAIN d
  THEN [res |-> "AttributeError", d |-> d, coll |-> c, next |-> nid]
  ELSE IF d["_id"] = Null
  THEN LET body == Without(d, "_id")
       IN IF InvalidDocument(body)
          THEN [res |-> "MondgoDBInvalidDocumentError",
                d |-> IF assignFirst THEN With(body, "_id", nid) ELSE body,
                coll |-> c, next |-> IF assignFirst THEN nid + 1 ELSE nid]
          ELSE [res |-> "inserted", d |-> With(body, "_id", nid),
                coll |-> With(c, nid, With(body, "_id", nid)), next |-> nid + 1]
  ELSE IF InvalidDocument(d)
  THEN [res |-> "MondgoDBInvalidDocumentError", d |-> d, coll |-> c, next |-> nid]
  ELSE [res |-> "replaced", d |-> d, coll |-> With(c, d["_id"], d), next |-> nid]

\* the try block of Document.save on __dict__ d against collection c;
\* assignFirst: the driver puts the generated _id into the dict it is handed
\* before it encodes the document
DocSave(d, c, nid, assignFirst) ==
  IF "_id" \notin DOMAIN d
  THEN [res |-> "AttributeError", d |-> d, coll |-> c, next |-> nid]
  ELSE IF d["_id"] = Null
  THEN LET body == Without(d, "_id")
       IN IF InvalidDocument(body)
          THEN [res |-> "MondgoDBInvalidDocumentError",
                d |-> IF assignFirst THEN With(body, "_id", nid) ELSE body,
                coll |-> c, next |-> IF assignFirst THEN nid + 1 ELSE nid]
          ELSE [res |-> "inserted", d |-> With(body, "_id", nid),
                coll |-> With(c, nid, With(body, "_id", nid)), next |-> nid + 1]
  ELSE IF InvalidDocument(d)
  THEN [res |-> "MondgoDBInvalidDocumentError", d |-> d, coll |-> c, next |-> nid]
  ELSE [res |-> "replaced", d |-> d,
        coll |-> IF d["_id"] \in DOMAIN c THEN With(c, d["_id"], d) ELSE c,
        next |-> nid]

DocInit ==
  /\ inst = [i \in Insts |-> [alive |-> FALSE, d |-> EmptyDict]]
  /\ coll = EmptyDict
  /\ nextOid = 1
  /\ counters \in {[exists |-> e, docs |-> EmptyDict] : e \in BOOLEAN}
  /\ persisted = {}
  /\ insertedId = [i \in Insts |-> Null]
  /\ last = [op |-> "init", inst |-> 0, res |-> "ok", items |-> <<>>, k |-> 0]

\* every __dict__ the constructor can build from the caller's arguments
Constructed == {Document__init__(pos, kwargs) : pos \in PosArgs, kwargs \in Dicts}

\* cls(...) by the caller; d0: the __dict__ its arguments give
New(i, d0) ==
  /\ UNCHANGED notDoc
  /\ ~inst[i].alive
  /\ inst' = [inst EXCEPT ![i] = [alive |-> TRUE, d |-> d0]]
  /\ last' = [op |-> "new", inst |-> i, res |-> "ok", items |-> <<>>, k |-> 0]
  /\ UNCHANGED <<coll, nextOid, counters, persisted, insertedId>>

\* instance.save(auto_field, auto_key); hasField, hasKey: the arguments are given
Save(i, hasField, hasKey, assignFirst) ==
  /\ UNCHANGED notDoc
  /\ inst[i].alive
  /\ IF hasField /\ ~hasKey
     THEN /\ last' = [op |-> "save", inst |-> i, res |-> "MongoFieldError", items |-> <<>>, k |-> 0]
          /\ UNCHANGED <<inst, coll, nextOid, counters, persisted, insertedId>>
     ELSE IF hasField /\ ~counters.exists
     THEN /\ last' = [op |-> "save", inst |-> i, res |-> "MongoDBCollectionError", items |-> <<>>, k |-> 0]
          /\ UNCHANGED <<inst, coll, nextOid, counters, persisted, insertedId>>
     ELSE LET after == IF hasField
                       THEN FindOneAndUpdate(counters.docs, SequenceName, DefaultIncrement)
                       ELSE counters.docs
              d1 == IF hasField
                    THEN With(inst[i].d, AutoField, ReturnDocument(counters.docs, after, SequenceName))
                    ELSE inst[i].d
              r == DocSave(d1, coll, nextOid, assignFirst)
          IN /\ hasField => after[SequenceName] <= MaxSeq
             /\ r.next <= MaxOid + 1
             /\ counters' = [counters EXCEPT !.docs = after]
             /\ inst' = [inst EXCEPT ![i].d = r.d]
             /\ coll' = r.coll
             /\ nextOid' = r.next
             /\ persisted' = IF r.res = "inserted" THEN persisted \cup {i} ELSE persisted
             /\ insertedId' = IF r.res = "inserted"
                              THEN [insertedId EXCEPT ![i] = r.d["_id"]]
                              ELSE insertedId
             /\ last' = [op |-> "save", inst |-> i, res |-> r.res, items |-> <<>>, k |-> 0]

\* instance.a = v: Document defines no __setattr__, any assignment goes to __dict__
SetField(i, v) ==
  /\ UNCHANGED notDoc
  /\ inst[i].alive
  /\ inst' = [inst EXCEPT ![i].d = With(@, "a", v)]
  /\ last' = [op |-> "setattr", inst |-> i, res |-> "ok", items |-> <<>>, k |-> 0]
  /\ UNCHANGED <<coll, nextOid, counters, persisted, insertedId>>

\* update_one({'_id': id}, {"$unset": {field: ""}})
UpdateOneUnset(c, id, field) ==
  IF id \in DOMAIN c THEN With(c, id, Without(c[id], field)) ELSE c

\* the __dict__ of the instance after delete_field
DeleteFieldLocal(d, field) == d

\* instance.delete_field(field)
DeleteField(i, field) ==
  /\ UNCHANGED notDoc
  /\ inst[i].alive
  /\ IF field \in DOMAIN inst[i].d
     THEN /\ "_id" \in DOMAIN inst[i].d
          /\ coll' = UpdateOneUnset(coll, inst[i].d["_id"], field)
          /\ inst' = [inst EXCEPT ![i].d = DeleteFieldLocal(@, field)]
          /\ last' = [op |-> "delete_field", inst |-> i, res |-> "ok", items |-> <<>>, k |-> 0]
     ELSE /\ last' = [op |-> "delete_field", inst |-> i, res |-> "MongoFieldError",
                      items |-> <<>>, k |-> 0]
          /\ UNCHANGED <<inst, coll>>
  /\ UNCHANGED <<nextOid, counters, persisted, insertedId>>

\* the identity strings a caller passes to get_by_id: bson.ObjectId accepts the
\* well-formed ones and raises InvalidId on the others
IdStrings == [valid : BOOLEAN, oid : 1..(MaxOid + 1)]

\* collection.find_one({'_id': id}): the stored document, or None
FindOneIsNone(c, id) == id \notin DOMAIN c

\* cls.get_by_id(_id); slot j receives the instance it returns, if it returns one
GetById(j, s) ==
  /\ UNCHANGED notDoc
  /\ ~inst[j].alive
  /\ IF ~s.valid
     THEN /\ last' = [op |-> "get_by_id", inst |-> j, res |-> "None", items |-> <<>>, k |-> 0]
          /\ UNCHANGED <<inst, persisted>>
     ELSE /\ inst' = [inst EXCEPT ![j] =
                        [alive |-> TRUE,
                         d |-> IF FindOneIsNone(coll, s.oid)
                               THEN Document__init__([isDict |-> FALSE, d |-> EmptyDict], EmptyDict)
                               ELSE Document__init__([isDict |-> TRUE, d |-> coll[s.oid]], EmptyDict)]]
          /\ persisted' = IF FindOneIsNone(coll, s.oid) THEN persisted ELSE persisted \cup {j}
          /\ last' = [op |-> "get_by_id", inst |-> j, res |-> "instance", items |-> <<>>, k |-> 0]
  /\ UNCHANGED <<coll, nextOid, counters, insertedId>>

\* the loop of insert_many from item k on: cls(item).save() for each item, a
\* raising save ends the loop; fail is the position of the failing item (0: none)
RECURSIVE InsertManyFrom(_, _, _, _)
InsertManyFrom(items, k, c, nid) ==
  IF k > Len(items)
  THEN [coll |-> c, next |-> nid, fail |-> 0]
  ELSE LET d == Document__init__([isDict |-> TRUE, d |-> items[k]], EmptyDict)
           r == DocSave(d, c, nid, TRUE)
       IN IF r.res \in {"inserted", "replaced"}
          THEN InsertManyFrom(items, k + 1, r.coll, r.next)
          ELSE [coll |-> r.coll, next |-> r.next, fail |-> k]

\* the dicts of a list given to insert_many: a field a, encodable or not, and
\* either no identity or an identity of the caller's own
ItemDicts == {d \in Dicts : "a" \in DOMAIN d /\ ("_id" \in DOMAIN d => d["_id"] # Null)}

ItemLists == UNION { [1..n -> ItemDicts] : n \in 0..MaxItems }

\* cls.insert_many(items)
InsertMany(items) ==
  LET r == InsertManyFrom(items, 1, coll, nextOid)
  IN /\ UNCHANGED notDoc
     /\ r.next <= MaxOid + 1
     /\ coll' = r.coll
     /\ nextOid' = r.next
     /\ last' = [op |-> "insert_many", inst |-> 0,
                 res |-> IF r.fail = 0 THEN "ok" ELSE "MondgoDBInvalidDocumentError",
                 items |-> items, k |-> r.fail]
     /\ UNCHANGED <<inst, counters, persisted, insertedId>>

\* cls.delete(a=v): delete_many on the equality filter
Delete(v) ==
  /\ UNCHANGED notDoc
  /\ coll' = [id \in {x \in DOMAIN coll : ~("a" \in DOMAIN coll[x] /\ coll[x]["a"] = v)} |-> coll[id]]
  /\ last' = [op |-> "delete", inst |-> 0, res |-> "ok", items |-> <<>>, k |-> 0]
  /\ UNCHANGED <<inst, nextOid, counters, persisted, insertedId>>

Next ==
  \/ \E i \in Insts, d0 \in Constructed : New(i, d0)
  \/ \E i \in Insts, hasField \in BOOLEAN, hasKey \in BOOLEAN, assignFirst \in BOOLEAN :
       Save(i, hasField, hasKey, assignFirst)
  \/ \E i \in Insts, v \in FieldValues : SetField(i, v)
  \/ \E i \in Insts, field \in {"a", AutoField} : DeleteField(i, field)
  \/ \E j \in Insts, s \in IdStrings : GetById(j, s)
  \/ \E items \in ItemLists : InsertMany(items)
  \/ \E v \in 1..MaxVal : Delete(v)

\* ------------------------------------------------- _get_auto_id, concurrently
AutoIdle ==
  /\ apc = [c \in Ctxs |-> "idle"]
  /\ areq = [c \in Ctxs |-> [seq |-> SequenceName, inc |-> DefaultIncrement]]
  /\ rets = <<>>
  /\ initDocs = EmptyDict
  /\ aerr = [c \in Ctxs |-> "none"]

\* the counter documents a database can hold before the first call
InitialCounterDocs ==
  UNION { [dom -> 0..MaxInitial] : dom \in SUBSET SequenceNames }

AutoInit ==
  /\ apc = [c \in Ctxs |-> "idle"]
  /\ areq = [c \in Ctxs |-> [seq |-> SequenceName, inc |-> DefaultIncrement]]
  /\ rets = <<>>
  /\ aerr = [c \in Ctxs |-> "none"]
  /\ initDocs \in InitialCounterDocs
  /\ counters \in {[exists |-> e, docs |-> initDocs] : e \in BOOLEAN}
  /\ counters.docs # EmptyDict => counters.exists

InFlight == Cardinality({c \in Ctxs : apc[c] = "update"})

\* _get_auto_id up to its driver call: the check that the counters collection exists
AutoCheck(c, seq, increment) ==
  /\ UNCHANGED <<connVars, modelVars>>
  /\ apc[c] = "idle"
  /\ Len(rets) + InFlight < MaxCalls
  /\ IF ~counters.exists
     THEN /\ aerr' = [aerr EXCEPT ![c] = "MongoDBCollectionError"]
          /\ UNCHANGED <<apc, areq>>
     ELSE /\ aerr' = [aerr EXCEPT ![c] = "none"]
          /\ apc' = [apc EXCEPT ![c] = "update"]
          /\ areq' = [areq EXCEPT ![c] = [seq |-> seq, inc |-> increment]]
  /\ UNCHANGED <<counters, rets, initDocs, docVars>>

\* the driver call of _get_auto_id and its return
AutoUpdate(c) ==
  /\ UNCHANGED <<connVars, modelVars>>
  /\ apc[c] = "update"
  /\ LET after == FindOneAndUpdate(counters.docs, areq[c].seq, areq[c].inc)
     IN /\ counters' = [exists |-> TRUE, docs |-> after]
        /\ rets' = Append(rets, [ctx |-> c, seq |-> areq[c].seq, inc |-> areq[c].inc,
                                 value |-> ReturnDocument(counters.docs, after, areq[c].seq)])
  /\ apc' = [apc EXCEPT ![c] = "idle"]
  /\ UNCHANGED <<areq, initDocs, aerr, docVars>>

\* the database gets its counters collection
CreateCounters ==
  /\ ~counters.exists
  /\ counters' = [counters EXCEPT !.exists = TRUE]
  /\ UNCHANGED <<autoVars, docVars, connVars, modelVars>>

AutoNext ==
  \/ \E c \in Ctxs, seq \in SequenceNames, increment \in Increments : AutoCheck(c, seq, increment)
  \/ \E c \in Ctxs : AutoUpdate(c)
  \/ CreateCounters

\* ------------------------------------------------ init_db and the lazy-init guard
DefaultRetries == 3

NoCall == [retries |-> 0, i |-> 0, attempts |-> 0, client |-> FALSE, via |-> "none"]
NoDone == [res |-> "none", retries |-> 0, attempts |-> 0, via |-> "none"]

ConnIdle ==
  /\ db = Null
  /\ env = FALSE
  /\ cpc = [c \in Ctxs |-> "idle"]
  /\ call = [c \in Ctxs |-> NoCall]
  /\ done = [c \in Ctxs |-> NoDone]
  /\ starts = 0
  /\ guardRuns = [c \in Ctxs |-> 0]
  /\ guardStores = 0
  /\ active = {}

ConnInit ==
  /\ db = Null
  /\ env \in BOOLEAN
  /\ cpc = [c \in Ctxs |-> "idle"]
  /\ call = [c \in Ctxs |-> NoCall]
  /\ done = [c \in Ctxs |-> NoDone]
  /\ starts = 0
  /\ guardRuns = [c \in Ctxs |-> 0]
  /\ guardStores = 0
  /\ active = {}

\* for i in range(retries): an empty range leaves the loop at once
EnterLoop(retries) == IF retries > 0 THEN "loop" ELSE "store"

\* the caller's init_db(connection_str, database, retries) is entered
InitDb(c, retries) ==
  /\ UNCHANGED notConn
  /\ cpc[c] = "idle"
  /\ starts < MaxStarts
  /\ starts' = starts + 1
  /\ active' = active \cup {c}
  /\ cpc' = [cpc EXCEPT ![c] = EnterLoop(retries)]
  /\ call' = [call EXCEPT ![c] = [retries |-> retries, i |-> 0, attempts |-> 0,
                                  client |-> FALSE, via |-> "caller"]]
  /\ UNCHANGED <<db, env, done, guardRuns, guardStores>>

\* a wrapper that calls init_db whatever DataBase._db holds
GuardSkipsCheck == TRUE

\* wrapper's test before it calls init_db: DataBase._db is None
GuardSeesNoConnection == db = Null

\* a call of a function decorated with mongo_check_and_connect: the wrapper up
\* to its call of init_db or of the decorated function
GuardedCall(c) ==
  /\ UNCHANGED notConn
  /\ cpc[c] = "idle"
  /\ active' = active \cup {c}
  /\ IF GuardSeesNoConnection
     THEN IF env
          THEN /\ starts < MaxStarts
               /\ starts' = starts + 1
               /\ guardRuns' = [guardRuns EXCEPT ![c] = @ + 1]
               /\ cpc' = [cpc EXCEPT ![c] = EnterLoop(DefaultRetries)]
               /\ call' = [call EXCEPT ![c] = [retries |-> DefaultRetries, i |-> 0,
                                               attempts |-> 0, client |-> FALSE,
                                               via |-> "guard"]]
               /\ UNCHANGED done
          ELSE /\ done' = [done EXCEPT ![c] = [res |-> "MongoDBConnectionError", retries |-> 0,
                                               attempts |-> 0, via |-> "guard"]]
               /\ UNCHANGED <<starts, guardRuns, cpc, call>>
     ELSE /\ done' = [done EXCEPT ![c] = [res |-> "called", retries |-> 0, attempts |-> 0,
                                          via |-> "guard"]]
          /\ UNCHANGED <<starts, guardRuns, cpc, call>>
  /\ UNCHANGED <<db, env, guardStores>>

\* one pass of init_db's loop: MongoClient(...), client.server_info();
\* timeout: the attempt raises ServerSelectionTimeoutError
Attempt(c, timeout) ==
  /\ UNCHANGED notConn
  /\ cpc[c] = "loop"
  /\ LET f == call[c]
     IN IF ~timeout
        THEN /\ call' = [call EXCEPT ![c].attempts = @ + 1, ![c].client = TRUE]
             /\ cpc' = [cpc EXCEPT ![c] = "store"]
             /\ UNCHANGED done
        ELSE IF f.i = f.retries - 1
        THEN /\ done' = [done EXCEPT ![c] = [res |-> "MongoDBConnectionError",
                                             retries |-> f.retries,
                                             attempts |-> f.attempts + 1, via |-> f.via]]
             /\ call' = [call EXCEPT ![c] = NoCall]
             /\ cpc' = [cpc EXCEPT ![c] = "idle"]
        ELSE /\ call' = [call EXCEPT ![c].attempts = @ + 1, ![c].i = @ + 1]
             /\ UNCHANGED <<cpc, done>>
  /\ UNCHANGED <<db, env, starts, guardRuns, guardStores, active>>

\* DataBase._db = client[database]; client is unbound when the loop never ran
Store(c) ==
  /\ UNCHANGED notConn
  /\ cpc[c] = "store"
  /\ LET f == call[c]
     IN IF f.client
        THEN /\ db' = c
             /\ guardStores' = IF f.via = "guard" THEN guardStores + 1 ELSE guardStores
             /\ done' = [done EXCEPT ![c] = [res |-> "ok", retries |-> f.retries,
                                             attempts |-> f.attempts, via |-> f.via]]
        ELSE /\ done' = [done EXCEPT ![c] = [res |-> "UnboundLocalError", retries |-> f.retries,
                                             attempts |-> f.attempts, via |-> f.via]]
             /\ UNCHANGED <<db, guardStores>>
  /\ call' = [call EXCEPT ![c] = NoCall]
  /\ cpc' = [cpc EXCEPT ![c] = "idle"]
  /\ UNCHANGED <<env, starts, guardRuns, active>>

ConnNext ==
  \/ \E c \in Ctxs, retries \in 0..MaxRetries : InitDb(c, retries)
  \/ \E c \in Ctxs : GuardedCall(c)
  \/ \E c \in Ctxs, timeout \in BOOLEAN : Attempt(c, timeout)
  \/ \E c \in Ctxs : Store(c)



DocIdle ==
  /\ inst = [i \in Insts |-> [alive |-> FALSE, d |-> EmptyDict]]
  /\ coll = EmptyDict
  /\ nextOid = 1
  /\ persisted = {}
  /\ insertedId = [i \in Insts |-> Null]
  /\ last = [op |-> "init", inst |-> 0, res |-> "ok", items |-> <<>>, k |-> 0]

\* ------------------------------------------------------ class creation
\* the three paths that make a mapped class
Kinds == {"factory", "register", "model"}

\* Document.collection = None
NoCollection == "None"

\* the collection name each path is given, and the class name it falls back to
GivenName == [k \in Kinds |-> IF k = "factory" THEN "users"
                              ELSE IF k = "register" THEN "persons" ELSE "people"]
ClassName == [k \in Kinds |-> IF k = "factory" THEN "User"
                              ELSE IF k = "register" THEN "Person" ELSE "People"]
Lower(name) == IF name = "Person" THEN "person" ELSE IF name = "User" THEN "user" ELSE "people"

\* Python values with their types; None is the identity of an unsaved instance
PyNone == [t |-> "NoneType", v |-> 0]
PyValues == [t : {"str", "int"}, v : 0..1]
ZeroValue(type) == [t |-> type, v |-> 0]

\* the annotations of the decorated class, in order: name: str, age: int
Annotations == <<[name |-> "name", type |-> "str"], [name |-> "age", type |-> "int"]>>
Declared == {Annotations[k].name : k \in 1..Len(Annotations)} \cup {"_id"}

\* attributes every instance finds on its class: Document's methods and collection
ClassAttributes == {"save", "collection"}

AttrNames == Declared \cup ClassAttributes \cup {"extra", "zzz"}

PyEmpty == [k \in {} |-> PyNone]

\* keyword arguments of a constructor call
KwArgs == UNION { [dom -> PyValues] : dom \in SUBSET {"name", "age", "extra"} }
PosValues == UNION { [1..n -> PyValues] : n \in 0..MaxArgs }

\* NewClass.__init__ from annotation k on; d: the __dict__ so far
RECURSIVE ModelInitFrom(_, _, _, _)
ModelInitFrom(k, args, kwargs, d) ==
  IF k > Len(Annotations)
  THEN \* self.__dict__['_id'] = None; Document.__init__(*args, **kwargs): its first
       \* positional argument is no dict, so the remaining keywords update __dict__
       [res |-> "ok", d |-> Update(With(d, "_id", PyNone), kwargs)]
  ELSE LET a == Annotations[k]
           value == IF a.name \in DOMAIN kwargs THEN kwargs[a.name]
                    ELSE IF Len(args) > 0 THEN args[1]
                    ELSE ZeroValue(a.type)
           kwargs1 == Without(kwargs, a.name)
           args1 == IF a.name \notin DOMAIN kwargs /\ Len(args) > 0 THEN Tail(args) ELSE args
       IN IF value.t # a.type
          THEN [res |-> "TypeError", d |-> d]
          ELSE ModelInitFrom(k + 1, args1, kwargs1, With(d, a.name, value))

\* what the constructor of a model class makes of every call of the bound
ModelConstructed == {ModelInitFrom(1, args, kwargs, PyEmpty) : args \in PosValues, kwargs \in KwArgs}

\* Document.__init__(**kwargs) of a class made by the factory or by register_model
PlainConstructed ==
  {Update([k \in {"_id"} |-> PyNone], kwargs) : kwargs \in {kw \in KwArgs : DOMAIN kw \subseteq {"name"}}}

\* mongo_check_and_connect's wrapper with init_db run to its end; ok: one of
\* init_db's attempts connects
Guard(ok) ==
  IF db # Null THEN [run |-> TRUE, db |-> db]
  ELSE IF env /\ ok THEN [run |-> TRUE, db |-> 1]
  ELSE [run |-> FALSE, db |-> db]

NoClass == [made |-> FALSE, collection |-> NoCollection, wrapper |-> NoCollection]

ModelIdle ==
  /\ classes = [k \in Kinds |-> NoClass]
  /\ obj = [alive |-> FALSE, kind |-> "none", d |-> PyEmpty]
  /\ mlast = [op |-> "init", kind |-> "none", res |-> "ok", name |-> "none"]
  /\ assigns = 0

notModel == <<docVars, autoVars, cpc, call, done, starts, guardRuns, guardStores, active>>

\* the caller's init_db(...), run to its end and connecting
Connect ==
  /\ UNCHANGED notModel
  /\ db = Null
  /\ db' = 1
  /\ mlast' = [op |-> "init_db", kind |-> "none", res |-> "ok", name |-> "none"]
  /\ UNCHANGED <<env, counters, classes, obj, assigns>>

\* create_collection_class(class_name, collection_name); given: a name is passed
CreateCollectionClass(given, ok) ==
  /\ UNCHANGED notModel
  /\ ~classes["factory"].made
  /\ LET g == Guard(ok)
     IN /\ db' = g.db
        /\ IF g.run
           THEN /\ classes' = [classes EXCEPT !["factory"] =
                     [made |-> TRUE,
                      collection |-> IF given THEN GivenName["factory"] ELSE ClassName["factory"],
                      wrapper |-> NoCollection]]
                /\ mlast' = [op |-> "create_collection_class", kind |-> "factory",
                             res |-> "ok", name |-> "none"]
           ELSE /\ mlast' = [op |-> "create_collection_class", kind |-> "factory",
                             res |-> "MongoDBConnectionError", name |-> "none"]
                /\ UNCHANGED classes
  /\ UNCHANGED <<env, counters, obj, assigns>>

\* register_model(cls, collection_name); given: a name is passed
RegisterModel(given, ok) ==
  /\ UNCHANGED notModel
  /\ ~classes["register"].made
  /\ LET g == Guard(ok)
     IN /\ db' = g.db
        /\ IF g.run
           THEN /\ classes' = [classes EXCEPT !["register"] =
                     [made |-> TRUE,
                      collection |-> IF given THEN GivenName["register"]
                                     ELSE Lower(ClassName["register"]),
                      wrapper |-> NoCollection]]
                /\ mlast' = [op |-> "register_model", kind |-> "register",
                             res |-> "ok", name |-> "none"]
           ELSE /\ mlast' = [op |-> "register_model", kind |-> "register",
                             res |-> "MongoDBConnectionError", name |-> "none"]
                /\ UNCHANGED classes
  /\ UNCHANGED <<env, counters, obj, assigns>>

\* @model(collection_name) on a class: NewClass is made, inheriting
\* Document.collection, and the name NewClass is bound to the guard's wrapper
ModelDecorate ==
  /\ UNCHANGED notModel
  /\ ~classes["model"].made
  /\ classes' = [classes EXCEPT !["model"] =
                   [made |-> TRUE, collection |-> NoCollection, wrapper |-> NoCollection]]
  /\ mlast' = [op |-> "model", kind |-> "model", res |-> "ok", name |-> "none"]
  /\ UNCHANGED <<db, env, counters, obj, assigns>>

\* where NewClass.__init__'s assignment NewClass.collection = ... lands: NewClass
\* names the wrapper function there, not the class
BindInInit(c, name) == [c EXCEPT !.wrapper = name]

\* a call of the decorated model class: the guard, then NewClass.__init__
InstantiateModel(r, ok) ==
  /\ UNCHANGED notModel
  /\ classes["model"].made
  /\ ~obj.alive
  /\ LET g == Guard(ok)
     IN /\ db' = g.db
        /\ IF ~g.run
           THEN /\ mlast' = [op |-> "new", kind |-> "model",
                             res |-> "MongoDBConnectionError", name |-> "none"]
                /\ UNCHANGED <<classes, obj>>
           ELSE IF r.res # "ok"
           THEN /\ mlast' = [op |-> "new", kind |-> "model", res |-> r.res, name |-> "none"]
                /\ UNCHANGED <<classes, obj>>
           ELSE /\ obj' = [alive |-> TRUE, kind |-> "model", d |-> r.d]
                /\ classes' = [classes EXCEPT !["model"] = BindInInit(@, GivenName["model"])]
                /\ mlast' = [op |-> "new", kind |-> "model", res |-> "ok", name |-> "none"]
  /\ UNCHANGED <<env, counters, assigns>>

\* the caller lets go of its instance
Discard ==
  /\ UNCHANGED notModel
  /\ obj.alive
  /\ obj' = [alive |-> FALSE, kind |-> "none", d |-> PyEmpty]
  /\ mlast' = [op |-> "del", kind |-> obj.kind, res |-> "ok", name |-> "none"]
  /\ UNCHANGED <<db, env, counters, classes, assigns>>

\* a call of a class made by the factory or by register_model
InstantiatePlain(k, d0) ==
  /\ UNCHANGED notModel
  /\ k \in {"factory", "register"}
  /\ classes[k].made
  /\ ~obj.alive
  /\ obj' = [alive |-> TRUE, kind |-> k, d |-> d0]
  /\ mlast' = [op |-> "new", kind |-> k, res |-> "ok", name |-> "none"]
  /\ UNCHANGED <<db, env, counters, classes, assigns>>

\* the values assigned after construction: one of each type
AssignValues == {[t |-> type, v |-> 1] : type \in {"str", "int"}}

\* hasattr(self, name): the instance's __dict__, then its class
HasAttr(d, name) == name \in DOMAIN d \/ name \in ClassAttributes

\* NewClass.__setattr__(name, value)
ModelSetAttrAllowed(d, name) == HasAttr(d, name)

\* instance.name = value
SetAttr(k, name, value) ==
  /\ UNCHANGED notModel
  /\ obj.alive /\ obj.kind = k
  /\ assigns < MaxAssign
  /\ assigns' = assigns + 1
  /\ IF k = "model" /\ ~ModelSetAttrAllowed(obj.d, name)
     THEN /\ mlast' = [op |-> "setattr", kind |-> k, res |-> "AttributeError", name |-> name]
          /\ UNCHANGED obj
     ELSE /\ obj' = [obj EXCEPT !.d = With(@, name, value)]
          /\ mlast' = [op |-> "setattr", kind |-> k, res |-> "ok", name |-> name]
  /\ UNCHANGED <<db, env, counters, classes>>

\* self.collection as save reads it: the instance's own attribute, then the class's
CollectionIsNone(k) ==
  "collection" \notin DOMAIN obj.d /\ classes[k].collection = NoCollection

\* instance.save(auto_field, auto_key) up to its try block
SaveMapped(k, hasField, hasKey) ==
  /\ UNCHANGED notModel
  /\ obj.alive /\ obj.kind = k
  /\ "save" \notin DOMAIN obj.d
  /\ IF hasField /\ ~hasKey
     THEN /\ mlast' = [op |-> "save", kind |-> k, res |-> "MongoFieldError", name |-> "none"]
          /\ UNCHANGED <<counters, obj>>
     ELSE IF hasField /\ ~counters.exists
     THEN /\ mlast' = [op |-> "save", kind |-> k, res |-> "MongoDBCollectionError",
                       name |-> "counters"]
          /\ UNCHANGED <<counters, obj>>
     ELSE LET after == IF hasField
                       THEN FindOneAndUpdate(counters.docs, SequenceName, DefaultIncrement)
                       ELSE counters.docs
          IN /\ hasField => after[SequenceName] <= MaxSeq
             /\ counters' = [counters EXCEPT !.docs = after]
             /\ obj' = IF hasField
                       THEN [obj EXCEPT !.d = With(@, AutoField,
                               [t |-> "int", v |-> ReturnDocument(counters.docs, after, SequenceName)])]
                       ELSE obj
             /\ mlast' = [op |-> "save", kind |-> k,
                          res |-> IF CollectionIsNone(k) THEN "MongoDBCollectionError"
                                  ELSE IF "collection" \in DOMAIN obj.d THEN "AttributeError"
                                  ELSE "try",
                          name |-> IF CollectionIsNone(k) THEN "collection" ELSE "none"]
  /\ UNCHANGED <<db, env, classes, assigns>>

ModelNext ==
  \/ Connect
  \/ \E given \in BOOLEAN, ok \in BOOLEAN : CreateCollectionClass(given, ok)
  \/ \E given \in BOOLEAN, ok \in BOOLEAN : RegisterModel(given, ok)
  \/ ModelDecorate
  \/ \E r \in ModelConstructed, ok \in BOOLEAN : InstantiateModel(r, ok)
  \/ \E k \in Kinds, d0 \in PlainConstructed : InstantiatePlain(k, d0)
  \/ Discard
  \/ \E k \in Kinds, name \in AttrNames, value \in AssignValues : SetAttr(k, name, value)
  \/ \E k \in Kinds, hasField \in BOOLEAN, hasKey \in BOOLEAN : SaveMapped(k, hasField, hasKey)

\* ------------------------------------------------------- specifications
Init == DocInit /\ AutoIdle /\ ConnIdle /\ ModelIdle

Spec == Init /\ [][Next]_vars

InitAuto == AutoInit /\ DocIdle /\ ConnIdle /\ ModelIdle

SpecAuto == InitAuto /\ [][AutoNext]_vars

NoCounters == counters = [exists |-> FALSE, docs |-> EmptyDict]

InitConn == ConnInit /\ DocIdle /\ AutoIdle /\ NoCounters /\ ModelIdle

SpecConn == InitConn /\ [][ConnNext]_vars

InitModel ==
  /\ ModelIdle /\ DocIdle /\ AutoIdle
  /\ db \in {Null, 1}
  /\ env \in BOOLEAN
  /\ counters \in {[exists |-> e, docs |-> EmptyDict] : e \in BOOLEAN}
  /\ cpc = [c \in Ctxs |-> "idle"]
  /\ call = [c \in Ctxs |-> NoCall]
  /\ done = [c \in Ctxs |-> NoDone]
  /\ starts = 0
  /\ guardRuns = [c \in Ctxs |-> 0]
  /\ guardStores = 0
  /\ active = {}

SpecModel == InitModel /\ [][ModelNext]_vars

\* ------------------------------------------------------- claims on Document
\* C1: every Document instance has an identity field _id, and that field is
\* null if and only if the instance has never been successfully persisted.
C1_IdentityNullIffNeverPersisted ==
  \A i \in Insts :
    inst[i].alive =>
      /\ "_id" \in DOMAIN inst[i].d
      /\ (inst[i].d["_id"] = Null <=> i \notin persisted)

\* a save that failed on an unencodable document left a never-persisted instance
\* whose identity is missing or not null
C1_FailedSaveReached ==
  /\ last.op = "save" /\ last.res = "MondgoDBInvalidDocumentError"
  /\ last.inst \notin persisted
  /\ ("_id" \in DOMAIN inst[last.inst].d => inst[last.inst].d["_id"] # Null)

C4_DeleteFieldRemovesBoth ==
  [][\A i \in Insts :
       (last'.op = "delete_field" /\ last'.inst = i) =>
         /\ last'.res = "MongoFieldError" => (inst' = inst /\ coll' = coll)
         /\ (last'.res = "ok" /\ i \in persisted) =>
              \E f \in (DOMAIN inst[i].d) \ {"_id"} :
                /\ f \notin DOMAIN inst'[i].d
                /\ inst[i].d["_id"] \in DOMAIN coll' => f \notin DOMAIN coll'[inst[i].d["_id"]]
  ]_vars

\* C8: get_by_id returns a document instance only when a stored document with
\* that identity exists; for a malformed identity and for a well-formed one that
\* matches nothing it returns the same absent result.
C8_GetByIdAbsentWhenNotFound ==
  (last.op = "get_by_id" /\ last.res = "instance") => last.inst \in persisted

\* C9: after insert_many(items) the documents newly in the collection are the
\* items processed before the first failing save: len(items) of them when no
\* save fails, k - 1 when the save of item k fails.
C9_InsertManyAddsProcessedItems ==
  [][last'.op = "insert_many" =>
       /\ \A id \in DOMAIN coll : id \in DOMAIN coll' /\ coll'[id] = coll[id]
       /\ Cardinality((DOMAIN coll') \ (DOMAIN coll)) =
            (IF last'.k = 0 THEN Len(last'.items) ELSE last'.k - 1)
  ]_vars

\* ------------------------------------------------------ claims on _get_auto_id
\* the calls on sequence seq that returned, in order
RECURSIVE RetsOn(_, _)
RetsOn(rs, seq) ==
  IF rs = <<>> THEN <<>>
  ELSE IF Head(rs).seq = seq THEN <<Head(rs)>> \o RetsOn(Tail(rs), seq)
  ELSE RetsOn(Tail(rs), seq)

RECURSIVE SumInc(_)
SumInc(rs) == IF rs = <<>> THEN 0 ELSE Head(rs).inc + SumInc(Tail(rs))

InitialValue(seq) == IF seq \in DOMAIN initDocs THEN initDocs[seq] ELSE 0

\* C5: each call of _get_auto_id returns the counter's value after its own
\* increment, no two calls on a sequence return the same value, consecutive
\* returned values differ by the increment, the stored sequence_value is the
\* initial value plus the sum of the increments of the calls made, and an absent
\* counter document is created by the first call.
C5_AtomicIncrementAndReturn ==
  \A seq \in SequenceNames :
    LET rs == RetsOn(rets, seq)
    IN /\ \A k \in 1..Len(rs) :
            rs[k].value = (IF k = 1 THEN InitialValue(seq) ELSE rs[k - 1].value) + rs[k].inc
       /\ \A j \in 1..Len(rs), k \in 1..Len(rs) : j # k => rs[j].value # rs[k].value
       /\ seq \in DOMAIN counters.docs <=> (seq \in DOMAIN initDocs \/ Len(rs) > 0)
       /\ seq \in DOMAIN counters.docs =>
            counters.docs[seq] = InitialValue(seq) + SumInc(rs)

\* two contexts have each had a call return on one sequence that had no counter
\* document, while a further call is between its check and its update
C5_InterleavedCallsReached ==
  \E seq \in SequenceNames :
    LET rs == RetsOn(rets, seq)
    IN /\ seq \notin DOMAIN initDocs
       /\ Len(rs) >= 2
       /\ rs[1].ctx # rs[2].ctx
       /\ \E c \in Ctxs : apc[c] = "update" /\ areq[c].seq = seq

\* ------------------------------------------------- claims on the connection
\* C3: an init_db call in which every connection attempt timed out has failed
\* with MongoDBConnectionError after exactly retries attempts.
C3_ExhaustedRetriesRaiseConnectionError ==
  \A c \in Ctxs :
    (done[c].res \notin {"none", "ok", "called"} /\ done[c].via = "caller") =>
      /\ done[c].res = "MongoDBConnectionError"
      /\ done[c].attempts = done[c].retries

\* an init_db call with retries > 1 has failed after retries timed-out attempts
C3_ExhaustedReached ==
  \E c \in Ctxs :
    /\ done[c].res = "MongoDBConnectionError" /\ done[c].via = "caller"
    /\ done[c].retries > 1 /\ done[c].attempts = done[c].retries

\* C10 as stated, its part on one execution context: while only one context
\* makes calls, its guard calls init_db at most once.
C10_SingleContextRunsInitOnce ==
  Cardinality(active) <= 1 => \A c \in Ctxs : guardRuns[c] <= 1

\* C10: the guard is a check-then-set with nothing held between the check and
\* the store, so two contexts can both be inside init_db and both store the
\* handle; while only one context makes calls, an init_db called by its guard
\* runs only while no handle exists, and at most one such run stores a handle (a
\* run that failed stored none, and the next guarded call runs init_db again).
C10_GuardChecksThenSets ==
  /\ \A c \in Ctxs :
       (active = {c} /\ cpc[c] # "idle" /\ call[c].via = "guard") => db = Null
  /\ Cardinality(active) <= 1 => guardStores <= 1
  /\ \A c \in Ctxs : guardRuns[c] > 0 => env

\* the guards of two contexts each called init_db once, and both runs stored the
\* handle: both had passed the check before either stored
C10_RaceReached ==
  \E c1 \in Ctxs, c2 \in Ctxs :
    /\ c1 # c2
    /\ guardRuns[c1] = 1 /\ guardRuns[c2] = 1
    /\ guardStores = 2

\* -------------------------------------------------- claims on mapped classes
\* the collection a path binds its class to
NamedCollections(k) ==
  IF k = "factory" THEN {GivenName[k], ClassName[k]}
  ELSE IF k = "register" THEN {GivenName[k], Lower(ClassName[k])}
  ELSE {GivenName[k]}

\* C6: once an instance of a mapped class has been constructed, the class is
\* bound to its named collection, and save on the instance does not fail with
\* MongoDBCollectionError for a missing collection binding.
C6_UsableClassIsBound ==
  \A k \in Kinds :
    (obj.alive /\ obj.kind = k) =>
      /\ classes[k].collection \in NamedCollections(k)
      /\ ~(mlast.op = "save" /\ mlast.kind = k /\ mlast.res = "MongoDBCollectionError"
           /\ mlast.name = "collection")

\* C7: on an instance of a class made by the model decorator, assigning to a
\* name that is no annotated field and not _id fails with AttributeError and
\* leaves the instance as it was; assigning to a declared field succeeds.
C7_OnlyDeclaredAssignable ==
  [][(mlast'.op = "setattr" /\ mlast'.kind = "model") =>
       IF mlast'.name \in Declared
       THEN mlast'.res = "ok"
       ELSE mlast'.res = "AttributeError" /\ obj' = obj
  ]_vars

=============================================================================
